---- MODULE Spec2Model ----
(***************************************************************************)
(* Model of src/app.py: the VehicleAccessSystem class (plate validation,   *)
(* plate recognition, registry lookup, access logging, registrations and   *)
(* reports over the three SQLite tables) and the Streamlit handlers of the *)
(* "Controle de Acesso" and "Configuracoes" pages that call it.            *)
(*                                                                         *)
(* A Python str is a sequence of one-character strings; the strings of the *)
(* model are ASCII.  Python None and SQL NULL are the empty tuple <<>>; a   *)
(* present value x is <<x>>.  SQLite does not enforce the FOREIGN KEY       *)
(* clauses (no PRAGMA foreign_keys), so they constrain nothing here.  The   *)
(* NOT NULL columns nome and cargo always receive a string.                *)
(***************************************************************************)
EXTENDS Integers, Sequences, FiniteSets, TLC

VARIABLES colaboradores, veiculos, acessos, seq, pending, last, text, ocr

vars == <<colaboradores, veiculos, acessos, seq, pending, last, text, ocr>>

(***************************************************************************)
(* Bounds of the model.                                                    *)
(***************************************************************************)
MaxLen == 8

MaxFragments == 3

MaxEmployees == 2

MaxVehicles == 2

MaxEvents == 2

(***************************************************************************)
(* Optional values.                                                        *)
(***************************************************************************)
None == <<>>

Some(x) == <<x>>

(***************************************************************************)
(* Characters and strings.                                                 *)
(***************************************************************************)
LowerCase == <<"a","b","c","d","e","f","g","h","i","j","k","l","m",
               "n","o","p","q","r","s","t","u","v","w","x","y","z">>

UpperCase == <<"A","B","C","D","E","F","G","H","I","J","K","L","M",
               "N","O","P","Q","R","S","T","U","V","W","X","Y","Z">>

Range(f) == {f[i] : i \in DOMAIN f}

Digits == {"0","1","2","3","4","5","6","7","8","9"}

UpperLetters == Range(UpperCase)

LowerLetters == Range(LowerCase)

\* the character class [A-Z]
IsUpperLetter(c) == c \in UpperLetters

\* the character class [0-9]
IsDigit(c) == c \in Digits

\* str.isalnum() of one ASCII character
isalnum(c) == c \in UpperLetters \cup LowerLetters \cup Digits

\* the uppercase letter of each lowercase ASCII letter
UpperOf == [c \in LowerLetters |-> UpperCase[CHOOSE i \in DOMAIN LowerCase : LowerCase[i] = c]]

\* str.upper() of one ASCII character
upperChar(c) == IF c \in LowerLetters THEN UpperOf[c] ELSE c

\* str.upper()
upper(s) == [i \in DOMAIN s |-> upperChar(s[i])]

\* ''.join(e for e in s if e.isalnum())
RECURSIVE keepAlnum(_)
keepAlnum(s) ==
    IF s = <<>> THEN <<>>
    ELSE IF isalnum(Head(s)) THEN <<Head(s)>> \o keepAlnum(Tail(s))
    ELSE keepAlnum(Tail(s))

(***************************************************************************)
(* Python regular expressions, as re.match evaluates the two patterns.     *)
(* '^' matches at position 1.  '$' (without re.MULTILINE) matches at the   *)
(* end of the string and also just before a newline that is the last       *)
(* character of the string.                                                *)
(***************************************************************************)
MatchDollar(s, pos) ==
    \/ pos = Len(s) + 1
    \/ pos = Len(s) /\ s[pos] = "\n"

\* [A-Z]{3}[0-9][A-Z0-9][0-9]{2} consumed from position 1
BodyMercosul(s) ==
    /\ Len(s) >= 7
    /\ \A i \in 1..3 : IsUpperLetter(s[i])
    /\ IsDigit(s[4])
    /\ IsUpperLetter(s[5]) \/ IsDigit(s[5])
    /\ IsDigit(s[6]) /\ IsDigit(s[7])

\* [A-Z]{3}[0-9]{4} consumed from position 1
BodyAntigo(s) ==
    /\ Len(s) >= 7
    /\ \A i \in 1..3 : IsUpperLetter(s[i])
    /\ \A i \in 4..7 : IsDigit(s[i])

\* re.match(r'^[A-Z]{3}[0-9][A-Z0-9][0-9]{2}$', s)
match_mercosul(s) == BodyMercosul(s) /\ MatchDollar(s, 8)

\* re.match(r'^[A-Z]{3}[0-9]{4}$', s)
match_antigo(s) == BodyAntigo(s) /\ MatchDollar(s, 8)

validate_plate(plate) == match_mercosul(upper(plate)) \/ match_antigo(upper(plate))

(***************************************************************************)
(* Inputs of the handlers.                                                 *)
(***************************************************************************)
ABC1D23 == <<"A","B","C","1","D","2","3">>

abc1d23 == <<"a","b","c","1","d","2","3">>

AB12345 == <<"A","B","1","2","3","4","5">>

XYZ9A88 == <<"X","Y","Z","9","A","8","8">>

J4NK == <<"J","4","N","K">>

PlateInputs == {ABC1D23, abc1d23, AB12345, ABC1D23 \o <<"\n">>}

\* what st.text_input, a single-line field, can hold
TypedInputs == {ABC1D23, abc1d23, AB12345, <<>>}

\* the plates register_access is called with directly
AccessPlates == {ABC1D23, abc1d23}

Names == {"Jane Doe"}

Positions == {"Gerente"}

TagIds == {None, Some("T1")}

Photos == {None}

Models == {"Onix"}

Brands == {"Chevrolet"}

Colors == {"Prata"}

EmployeeIds == {None, Some(1)}

VehicleTypeInputs == {Some("Gerente"), Some("Outro")}

NotesInputs == {"not registered"}

\* the (allowed, notes) pairs passed to register_access
AccessInputs == {<<TRUE, "">>, <<FALSE, "not registered">>}

DateRanges == {<<None, None>>, <<Some(0), Some(0)>>}

\* what the OCR engine may read off an uploaded image, fragment by fragment
OcrInputs == {<<<<"a","b","c","-","1","d","2","3">>>>, <<ABC1D23, J4NK>>}

(***************************************************************************)
(* The schema of create_database: column constraints and row shapes.       *)
(***************************************************************************)
TiposVeiculo == {"Diretor", "Gerente", "Funcionario", "Visitante"}

\* a tag_id column without UNIQUE
UniqueTagId_off(tag_id) == TRUE

\* tag_id TEXT UNIQUE: NULLs never collide
UniqueTagId(tag_id) ==
    tag_id = None \/ \A c \in colaboradores : c.tag_id # tag_id

\* a placa column without UNIQUE
UniquePlaca_off(placa) == TRUE

\* placa TEXT UNIQUE NOT NULL
UniquePlaca(placa) == \A v \in veiculos : v.placa # placa

\* tipo_veiculo TEXT CHECK(tipo_veiculo IN (...)): a NULL passes the CHECK
CheckTipoVeiculo(tipo) == tipo = None \/ tipo[1] \in TiposVeiculo

\* DROP TABLE followed by CREATE TABLE
CreateTableIfNotExists_reset(rows) == {}

\* CREATE TABLE IF NOT EXISTS on a table that exists keeps its rows
CreateTableIfNotExists(rows) == rows

\* datetime.now(), in ticks: the clock advances one tick with every logged event
now == seq["acessos"]

\* INTEGER PRIMARY KEY AUTOINCREMENT: one more than the largest id ever used
NextId(table) == seq[table] + 1

\* cursor.fetchone() of a result set
fetchone(rows) == IF rows = {} THEN None ELSE Some(CHOOSE r \in rows : TRUE)

NoLast == [op |-> "init", args |-> <<>>, ret |-> None]

(***************************************************************************)
(* VehicleAccessSystem: the methods as functions of the current tables.    *)
(***************************************************************************)

\* pytesseract.image_to_string: the recognised fragments, one per line
RECURSIVE image_to_string(_)
image_to_string(frags) ==
    IF frags = <<>> THEN <<>>
    ELSE Head(frags) \o <<"\n">> \o image_to_string(Tail(frags))

\* recognize_plate: raised is TRUE when decoding, pre-processing or OCR raises
recognize_plate_result(frags, raised) ==
    IF raised THEN None
    ELSE LET plate == upper(keepAlnum(image_to_string(frags)))
         IN  IF validate_plate(plate) THEN Some(plate) ELSE None

\* the columns c.nome, c.cargo, c.tag_id, c.foto of a LEFT JOIN without a match
NullOwner == [nome |-> None, cargo |-> None, tag_id |-> None, foto |-> None]

OwnerColumns(c) ==
    [nome |-> Some(c.nome), cargo |-> Some(c.cargo), tag_id |-> c.tag_id, foto |-> c.foto]

\* veiculos v JOIN colaboradores c ON v.colaborador_id = c.id
JoinColaboradores(v) ==
    {OwnerColumns(c) : c \in {x \in colaboradores : v.colaborador_id = Some(x.id)}}

\* the inner JOIN in the place of the LEFT JOIN
LeftJoinColaboradores_inner(v) == JoinColaboradores(v)

\* veiculos v LEFT JOIN colaboradores c ON v.colaborador_id = c.id
LeftJoinColaboradores(v) ==
    IF JoinColaboradores(v) = {} THEN {NullOwner} ELSE JoinColaboradores(v)

\* SELECT v.placa, v.modelo, v.marca, v.cor, v.tipo_veiculo, c.nome, c.cargo, c.tag_id, c.foto
VehicleInfoRow(v, o) ==
    [placa |-> v.placa, modelo |-> v.modelo, marca |-> v.marca, cor |-> v.cor,
     tipo_veiculo |-> v.tipo_veiculo,
     nome |-> o.nome, cargo |-> o.cargo, tag_id |-> o.tag_id, foto |-> o.foto]

get_vehicle_info_result(plate) ==
    fetchone(UNION {{VehicleInfoRow(v, o) : o \in LeftJoinColaboradores(v)} :
                    v \in {x \in veiculos : x.placa = plate}})

\* register_access without the test of vehicle_id: a row for every call
register_access_result_always(plate, allowed, notes) ==
    LET vehicle_id == fetchone({v.id : v \in {x \in veiculos : x.placa = plate}})
    IN  [acessos |-> acessos \cup {[id |-> NextId("acessos"), veiculo_id |-> vehicle_id,
                                    data_hora |-> now, acesso_permitido |-> allowed,
                                    observacoes |-> notes]},
         seq |-> [seq EXCEPT !["acessos"] = NextId("acessos")],
         ret |-> TRUE]

\* register_access: the new acessos table, the new id counters and the return value
register_access_result(plate, allowed, notes) ==
    LET vehicle_id == fetchone({v.id : v \in {x \in veiculos : x.placa = plate}})
    IN  IF vehicle_id # None
        THEN [acessos |-> acessos \cup {[id |-> NextId("acessos"), veiculo_id |-> Some(vehicle_id[1]),
                                         data_hora |-> now, acesso_permitido |-> allowed,
                                         observacoes |-> notes]},
              seq |-> [seq EXCEPT !["acessos"] = NextId("acessos")],
              ret |-> TRUE]
        ELSE [acessos |-> acessos, seq |-> seq, ret |-> FALSE]

\* the plate stored as it was passed
StoredPlaca_raw(plate) == plate

\* the plate.upper() that add_vehicle stores
StoredPlaca(plate) == upper(plate)

\* date(a.data_hora): the clock ticks twice a day
date(data_hora) == data_hora \div 2

\* get_access_report: the rows of the query, each with the id of its acessos row
\* to keep equal rows apart (ORDER BY only arranges them)
get_access_report_result(start_date, end_date) ==
    LET joined == UNION {UNION {{[data_hora |-> a.data_hora, placa |-> v.placa, modelo |-> v.modelo,
                                  marca |-> v.marca, nome |-> o.nome, cargo |-> o.cargo,
                                  status |-> IF a.acesso_permitido THEN "LIBERADO" ELSE "NEGADO",
                                  observacoes |-> a.observacoes, id |-> a.id] :
                                 o \in LeftJoinColaboradores(v)} :
                                v \in {x \in veiculos : a.veiculo_id = Some(x.id)}} :
                         a \in acessos}
    IN  IF start_date # None /\ end_date # None
        THEN {r \in joined : start_date[1] <= date(r.data_hora) /\ date(r.data_hora) <= end_date[1]}
        ELSE joined

(***************************************************************************)
(* The state after VehicleAccessSystem() on a fresh carbon_access.db.      *)
(***************************************************************************)
Init ==
    /\ colaboradores = {}
    /\ veiculos = {}
    /\ acessos = {}
    /\ seq = [colaboradores |-> 0, veiculos |-> 0, acessos |-> 0]
    /\ pending = None
    /\ last = NoLast
    /\ text = <<>>
    /\ ocr = <<>>

(***************************************************************************)
(* The handlers.  last records the call that led to the current state and  *)
(* what it returned; pending is the plate of a refusal whose "Confirmar    *)
(* Negacao" button is on the page.  Every other handler runs in a script   *)
(* run that does not render that button, so it clears pending.  A handler  *)
(* that would add a row to a table already holding its Max... rows is not  *)
(* taken.                                                                  *)
(***************************************************************************)

create_database ==
    /\ colaboradores' = CreateTableIfNotExists(colaboradores)
    /\ veiculos' = CreateTableIfNotExists(veiculos)
    /\ acessos' = CreateTableIfNotExists(acessos)
    /\ last' = [op |-> "create_database", args |-> <<>>, ret |-> None]
    /\ pending' = None
    /\ UNCHANGED <<seq, text, ocr>>

add_employee(name, position, tag_id, photo) ==
    /\ UniqueTagId(tag_id) => Cardinality(colaboradores) < MaxEmployees
    /\ IF UniqueTagId(tag_id)
       THEN /\ colaboradores' = colaboradores \cup
                   {[id |-> NextId("colaboradores"), nome |-> name, cargo |-> position,
                     tag_id |-> tag_id, foto |-> photo, ativo |-> TRUE]}
            /\ seq' = [seq EXCEPT !["colaboradores"] = NextId("colaboradores")]
            /\ last' = [op |-> "add_employee", args |-> <<tag_id>>,
                        ret |-> Some(NextId("colaboradores"))]
       ELSE \* sqlite3.IntegrityError
            /\ last' = [op |-> "add_employee", args |-> <<tag_id>>, ret |-> None]
            /\ UNCHANGED <<colaboradores, seq>>
    /\ pending' = None
    /\ UNCHANGED <<veiculos, acessos, text, ocr>>

add_vehicle(plate, model, brand, color, employee_id, vehicle_type) ==
    /\ Cardinality(veiculos) < MaxVehicles
         \/ ~validate_plate(plate)
         \/ ~(UniquePlaca(StoredPlaca(plate)) /\ CheckTipoVeiculo(vehicle_type))
    /\ IF ~validate_plate(plate)
       THEN /\ last' = [op |-> "add_vehicle", args |-> <<plate>>,
                        ret |-> <<FALSE, "Placa invalida">>]
            /\ UNCHANGED <<veiculos, seq>>
       ELSE IF UniquePlaca(StoredPlaca(plate)) /\ CheckTipoVeiculo(vehicle_type)
       THEN /\ veiculos' = veiculos \cup
                   {[id |-> NextId("veiculos"), placa |-> StoredPlaca(plate), modelo |-> model,
                     marca |-> brand, cor |-> color, colaborador_id |-> employee_id,
                     tipo_veiculo |-> vehicle_type]}
            /\ seq' = [seq EXCEPT !["veiculos"] = NextId("veiculos")]
            /\ last' = [op |-> "add_vehicle", args |-> <<plate>>,
                        ret |-> <<TRUE, "Veiculo cadastrado com sucesso">>]
       ELSE \* sqlite3.IntegrityError
            /\ last' = [op |-> "add_vehicle", args |-> <<plate>>,
                        ret |-> <<FALSE, "Placa ja cadastrada">>]
            /\ UNCHANGED <<veiculos, seq>>
    /\ pending' = None
    /\ UNCHANGED <<colaboradores, acessos, text, ocr>>

get_vehicle_info(plate) ==
    /\ last' = [op |-> "get_vehicle_info", args |-> <<plate>>,
                ret |-> get_vehicle_info_result(plate)]
    /\ pending' = None
    /\ UNCHANGED <<colaboradores, veiculos, acessos, seq, text, ocr>>

register_access(plate, allowed, notes) ==
    LET r == register_access_result(plate, allowed, notes)
    IN  /\ r.acessos # acessos => Cardinality(acessos) < MaxEvents
        /\ acessos' = r.acessos
        /\ seq' = r.seq
        /\ last' = [op |-> "register_access", args |-> <<plate>>, ret |-> r.ret]
        /\ pending' = None
        /\ UNCHANGED <<colaboradores, veiculos, text, ocr>>

get_access_report(start_date, end_date) ==
    /\ last' = [op |-> "get_access_report", args |-> <<start_date, end_date>>,
                ret |-> get_access_report_result(start_date, end_date)]
    /\ pending' = None
    /\ UNCHANGED <<colaboradores, veiculos, acessos, seq, text, ocr>>

\* what both tabs of "Controle de Acesso" do with a well-formed plate
AccessDecision(source, plate) ==
    LET vehicle_info == get_vehicle_info_result(plate)
    IN  IF vehicle_info # None
        THEN LET r == register_access_result(vehicle_info[1].placa, TRUE, "")
             IN  /\ r.acessos # acessos => Cardinality(acessos) < MaxEvents
                 /\ acessos' = r.acessos
                 /\ seq' = r.seq
                 /\ last' = [op |-> source, args |-> <<plate>>, ret |-> "LIBERADO"]
                 /\ pending' = None
        ELSE /\ last' = [op |-> source, args |-> <<plate>>, ret |-> "NEGADO"]
             /\ pending' = Some(plate)
             /\ UNCHANGED <<acessos, seq>>

\* tab "Busca por Placa", button "Consultar Placa"
ConsultarPlaca(typed) ==
    LET plate_input == upper(typed)
    IN  /\ IF plate_input # <<>> /\ validate_plate(plate_input)
           THEN AccessDecision("ConsultarPlaca", plate_input)
           ELSE /\ last' = [op |-> "ConsultarPlaca", args |-> <<plate_input>>, ret |-> "INVALIDO"]
                /\ pending' = None
                /\ UNCHANGED <<acessos, seq>>
        /\ UNCHANGED <<colaboradores, veiculos, text, ocr>>

\* tab "Reconhecimento por Imagem", an uploaded file
ReconhecimentoPorImagem(frags, raised) ==
    LET plate == recognize_plate_result(frags, raised)
    IN  /\ IF plate # None
           THEN AccessDecision("ReconhecimentoPorImagem", plate[1])
           ELSE /\ last' = [op |-> "ReconhecimentoPorImagem", args |-> <<>>, ret |-> "INVALIDO"]
                /\ pending' = None
                /\ UNCHANGED <<acessos, seq>>
        /\ UNCHANGED <<colaboradores, veiculos, text, ocr>>

\* button "Confirmar Negacao" of either tab
ConfirmarNegacao(notes) ==
    /\ pending # None
    /\ LET r == register_access_result(pending[1], FALSE, notes)
       IN  /\ r.acessos # acessos => Cardinality(acessos) < MaxEvents
           /\ acessos' = r.acessos
           /\ seq' = r.seq
           /\ last' = [op |-> "ConfirmarNegacao", args |-> <<pending[1]>>, ret |-> r.ret]
    /\ pending' = None
    /\ UNCHANGED <<colaboradores, veiculos, text, ocr>>

Next ==
    \/ create_database
    \/ \E name \in Names, position \in Positions, tag_id \in TagIds, photo \in Photos :
           add_employee(name, position, tag_id, photo)
    \/ \E plate \in PlateInputs, model \in Models, brand \in Brands, color \in Colors,
          employee_id \in EmployeeIds, vehicle_type \in VehicleTypeInputs :
           add_vehicle(plate, model, brand, color, employee_id, vehicle_type)
    \/ \E plate \in PlateInputs : get_vehicle_info(plate)
    \/ \E plate \in AccessPlates, a \in AccessInputs : register_access(plate, a[1], a[2])
    \/ \E range \in DateRanges : get_access_report(range[1], range[2])
    \/ \E typed \in TypedInputs : ConsultarPlaca(typed)
    \/ \E frags \in OcrInputs, raised \in BOOLEAN : ReconhecimentoPorImagem(frags, raised)
    \/ \E notes \in NotesInputs : ConfirmarNegacao(notes)

Spec == Init /\ [][Next]_vars

(***************************************************************************)
(* validate_plate on its own: every string over TextChars of at most       *)
(* MaxLen characters is validated.                                         *)
(***************************************************************************)
TextChars == {"A", "a", "1", "\n"}

Texts == UNION {[1..n -> TextChars] : n \in 0..MaxLen}

InitValidate ==
    /\ text \in Texts
    /\ colaboradores = {}
    /\ veiculos = {}
    /\ acessos = {}
    /\ seq = [colaboradores |-> 0, veiculos |-> 0, acessos |-> 0]
    /\ pending = None
    /\ last = NoLast
    /\ ocr = <<>>

ValidatePlate ==
    /\ last' = [op |-> "validate_plate", args |-> <<text>>, ret |-> validate_plate(text)]
    /\ UNCHANGED <<colaboradores, veiculos, acessos, seq, pending, text, ocr>>

SpecValidate == InitValidate /\ [][ValidatePlate]_vars

(***************************************************************************)
(* recognize_plate on its own: the OCR engine returns any sequence of at   *)
(* most MaxFragments fragments, or the processing raises.                  *)
(***************************************************************************)
Fragments == {XYZ9A88, J4NK, <<"a","b","c","-","1","d","2","3">>, <<>>}

OcrResults == UNION {[1..n -> Fragments] : n \in 0..MaxFragments}

InitRecognize ==
    /\ ocr \in OcrResults
    /\ colaboradores = {}
    /\ veiculos = {}
    /\ acessos = {}
    /\ seq = [colaboradores |-> 0, veiculos |-> 0, acessos |-> 0]
    /\ pending = None
    /\ last = NoLast
    /\ text = <<>>

recognize_plate(raised) ==
    /\ last' = [op |-> "recognize_plate", args |-> <<raised>>,
                ret |-> recognize_plate_result(ocr, raised)]
    /\ UNCHANGED <<colaboradores, veiculos, acessos, seq, pending, text, ocr>>

SpecRecognize == InitRecognize /\ [][\E raised \in BOOLEAN : recognize_plate(raised)]_vars

(***************************************************************************)
(* Properties.                                                             *)
(***************************************************************************)

\* C1: every call of register_access, for a registered plate or not, adds
\* exactly one row to acessos.
C1_AppendsExactlyOne ==
    [][last'.op = "register_access" => Cardinality(acessos') = Cardinality(acessos) + 1]_vars

\* C2: an access request with a well-formed plate is LIBERADO exactly when the
\* lookup of the plate returns a row; a LIBERADO decision appends an event with
\* acesso_permitido = TRUE, and a NEGADO decision has an event with
\* acesso_permitido = FALSE appended once its refusal is confirmed.
C2_DecisionLogged ==
    [][/\ (last'.op \in {"ConsultarPlaca", "ReconhecimentoPorImagem"} /\ last'.ret # "INVALIDO")
            => /\ (last'.ret = "LIBERADO") <=> (get_vehicle_info_result(last'.args[1]) # None)
               /\ last'.ret = "LIBERADO"
                    => \E e \in acessos' \ acessos : e.acesso_permitido = TRUE
       /\ last'.op = "ConfirmarNegacao"
            => \E e \in acessos' \ acessos : e.acesso_permitido = FALSE]_vars

IsMercosul(s) == Len(s) = 7 /\ BodyMercosul(s)

IsAntigo(s) == Len(s) = 7 /\ BodyAntigo(s)

\* C4: validate_plate(s) is True exactly when the whole of s.upper() is 3 letters
\* + 1 digit + 1 letter-or-digit + 2 digits, or 3 letters + 4 digits; so it is
\* False for every string whose length is not 7.
C4_ValidateIffGrammar ==
    last.op = "validate_plate"
        => (last.ret <=> (IsMercosul(upper(text)) \/ IsAntigo(upper(text))))

\* the fragments normalised one by one, the first that validates
RECURSIVE FirstValidFragment(_)
FirstValidFragment(frags) ==
    IF frags = <<>> THEN None
    ELSE LET candidate == upper(keepAlnum(Head(frags)))
         IN  IF validate_plate(candidate) THEN Some(candidate)
             ELSE FirstValidFragment(Tail(frags))

\* C5: plate extraction normalises each OCR fragment separately and returns the
\* first fragment, in OCR order, that validates, or nothing if none does.
C5_FirstValidFragmentWins ==
    (last.op = "recognize_plate" /\ ~last.args[1]) => last.ret = FirstValidFragment(ocr)

\* C6: add_employee with a tag id that a stored employee holds returns None and
\* leaves colaboradores as it was; with a tag id not stored it adds exactly one
\* row, carrying that tag id, and returns the id of the row.
C6_AddEmployee ==
    [][last'.op = "add_employee"
         => IF last'.args[1] # None /\ \E c \in colaboradores : c.tag_id = last'.args[1]
            THEN last'.ret = None /\ colaboradores' = colaboradores
            ELSE \E c \in colaboradores' \ colaboradores :
                    /\ colaboradores' = colaboradores \cup {c}
                    /\ c.tag_id = last'.args[1]
                    /\ last'.ret = Some(c.id)]_vars

C6_DuplicateTagRefused ==
    /\ last.op = "add_employee"
    /\ last.ret = None
    /\ \E c \in colaboradores : c.tag_id = last.args[1]

OwnerUnresolved(v) == \A c \in colaboradores : v.colaborador_id # Some(c.id)

\* C8: get_vehicle_info returns a row for every stored vehicle whose plate
\* equals the argument; the row carries the vehicle's columns, and when the
\* vehicle's owner is absent or is no stored employee the owner columns of the
\* row are NULL.
C8_LookupToleratesMissingOwner ==
    last.op = "get_vehicle_info"
        => \A v \in veiculos :
              v.placa = last.args[1]
                => /\ last.ret # None
                   /\ last.ret[1].placa = v.placa
                   /\ last.ret[1].modelo = v.modelo
                   /\ last.ret[1].marca = v.marca
                   /\ last.ret[1].cor = v.cor
                   /\ last.ret[1].tipo_veiculo = v.tipo_veiculo
                   /\ OwnerUnresolved(v)
                        => /\ last.ret[1].nome = None
                           /\ last.ret[1].cargo = None
                           /\ last.ret[1].tag_id = None
                           /\ last.ret[1].foto = None

C8_FoundWithDanglingOwner ==
    /\ last.op = "get_vehicle_info"
    /\ last.ret # None
    /\ \E v \in veiculos :
          v.placa = last.args[1] /\ v.colaborador_id # None /\ OwnerUnresolved(v)

\* C9: every row of acessos stays in acessos, unchanged, across every step.
C9_AccessLogAppendOnly ==
    [][\A e \in acessos : e \in acessos']_vars

C9_ResetWithLoggedEvents ==
    /\ last.op = "create_database"
    /\ Cardinality(acessos) = 2

\* C10: every row of acessos refers to a stored vehicle; register_access inserts
\* a row and returns True when a vehicle has the plate, and inserts nothing and
\* returns False when none has; vehicles are never deleted.
C10_EventsReferToStoredVehicles ==
    [][/\ \A e \in acessos' : e.veiculo_id # None /\ \E v \in veiculos' : e.veiculo_id = Some(v.id)
       /\ \A v \in veiculos : v \in veiculos'
       /\ last'.op = "register_access"
            => IF \E v \in veiculos : v.placa = last'.args[1]
               THEN last'.ret = TRUE /\ Cardinality(acessos') = Cardinality(acessos) + 1
               ELSE last'.ret = FALSE /\ acessos' = acessos]_vars

C10_UnknownPlateNotLogged ==
    /\ last.op = "register_access"
    /\ last.ret = FALSE
    /\ acessos # {}

====
